---- MODULE Spec2Model ----
(***************************************************************************)
(* Model of aws-k8s-tester's EC2 configuration lifecycle                   *)
(*   - eks/ng/configmap.go : tester.createConfigMap, the bounded retry     *)
(*     loop applying the aws-auth ConfigMap with kubectl, and              *)
(*     writeConfigMapAuth, which renders that ConfigMap;                   *)
(*   - ec2config           : Config.UpdateFromEnvs,                        *)
(*     Config.ValidateAndSetDefaults, Config.Sync, Load, NewDefault.       *)
(*                                                                         *)
(* The specifications of the module:                                       *)
(*   LoopSpec / LoopFairSpec : one run of createConfigMap on a clock;      *)
(*   FinalizeSpec            : ValidateAndSetDefaults calls and user edits *)
(*                             on one Config;                              *)
(*   EnvSpec                 : UpdateFromEnvs calls on one Config;         *)
(*   StoreSpec               : Sync and Load calls on one Config and its   *)
(*                             file;                                       *)
(*   LifecycleSpec           : ValidateAndSetDefaults and Sync calls and   *)
(*                             user edits on one Config;                   *)
(*   AuthSpec                : writeConfigMapAuth on a role ARN;           *)
(*   DefaultSpec             : NewDefault, and UpdateFromEnvs and          *)
(*                             ValidateAndSetDefaults on the Config it     *)
(*                             returns, on a heap of shared objects.       *)
(***************************************************************************)
EXTENDS Integers, Sequences, FiniteSets, TLC

VARIABLES
    \* ---- createConfigMap (eks/ng/configmap.go) ----
    pc,            \* position in createConfigMap: "start", "check", "select", "attempt", "done"
    now,           \* time.Now(), in units of 5 seconds
    retryStart,    \* local retryStart
    waitStart,     \* instant the current select (time.After) was entered
    attemptStart,  \* instant the current kubectl command was started
    Stopc,         \* ts.cfg.Stopc is closed
    Sig,           \* ts.cfg.Sig holds a signal
    result,        \* value returned by createConfigMap ("none" while running)
    attempts,      \* kubectl apply commands started
    succeeded,     \* commands that returned err == nil
    failed,        \* commands that returned err != nil
    recorded,      \* calls of EKSConfig.RecordStatus("create ConfigMap failed (...)")
    lastRecorded,  \* outcome of the attempt preceding the last RecordStatus call
    syncs,         \* calls of EKSConfig.Sync
    fired,         \* observation: where the loop stood when a cancellation first fired
    \* ---- ec2config ----
    cfg,           \* the *Config the caller holds
    last,          \* observation: the last call: operation, error, Config before it, inputs
    prev,          \* observation: operation and error of the call before the last
    calls,         \* calls made so far
    edits,         \* fields the user has edited between calls so far
    disk,          \* the files on disk: absolute path -> content
    loaded,        \* the *Config the last Load returned
    stores,        \* Sync and Load calls made so far
    \* ---- writeConfigMapAuth (eks/ng/configmap.go) ----
    arn,           \* the role ARN passed to writeConfigMapAuth
    artifact,      \* what writeConfigMapAuth wrote and returned
    \* ---- ec2config: defaultConfig and NewDefault ----
    mem            \* the slices and maps of defaultConfig and of a Config made by
                   \* NewDefault: the objects of the heap and who refers to them

loopVars == <<pc, now, retryStart, waitStart, attemptStart, Stopc, Sig, result,
              attempts, succeeded, failed, recorded, lastRecorded, syncs, fired>>

storeVars == <<disk, loaded, stores>>

cfgVars == <<cfg, last, prev, calls, edits, storeVars>>

authVars == <<arn, artifact>>

vars == <<loopVars, cfgVars, authVars, mem>>

-----------------------------------------------------------------------------
(* ec2config: strings                                                      *)
(*                                                                         *)
(* A Go string is a sequence of atoms.  The separators the code splits on  *)
(* (",", "=", "/"), signs, digits and duration units are atoms of their    *)
(* own; any other atom stands for a run of characters holding none of      *)
(* them.  "" is <<>> and + is \o.                                          *)

\* the nil error
Nil == "nil"

\* ValidateAndSetDefaults calls made on one Config in a run of FinalizeSpec
MaxCalls == 2
\* UpdateFromEnvs calls made on one Config in a run
MaxEnvCalls == 1
\* fields the user edits between calls
MaxEdits == 1
\* environment variables set at once
MaxEnvVars == 2

RECURSIVE Split(_, _)
\* strings.Split(s, sep) for a one-atom separator
Split(s, sep) ==
    LET idx == {i \in 1..Len(s) : s[i] = sep}
    IN  IF idx = {}
        THEN <<s>>
        ELSE LET i == CHOOSE j \in idx : \A k \in idx : j <= k
             IN  <<SubSeq(s, 1, i - 1)>> \o Split(SubSeq(s, i + 1, Len(s)), sep)

\* strings.ToLower on the airport codes of the lookup
ToLower(s) ==
    [i \in 1..Len(s) |->
        CASE s[i] = "PDX" -> "pdx"
          [] s[i] = "IAD" -> "iad"
          [] OTHER -> s[i]]

\* filepath.Join(a, b): empty elements are ignored; Clean changes nothing on
\* the atoms used here (no ".", "..", or doubled separator)
Join(a, b) ==
    IF a = <<>> THEN b
    ELSE IF b = <<>> THEN a
    ELSE a \o <<"/">> \o b

\* os.TempDir()
TempDir == <<"/tmp">>

\* pkgaws.RegionToAiport (pkg/aws): region to airport code
RegionToAiport ==
    [r \in {<<"us-west-2">>, <<"us-east-1">>} |->
        IF r = <<"us-west-2">> THEN <<"PDX">> ELSE <<"IAD">>]

\* plugins the plugins package knows (ec2config/plugins)
KnownPlugins == {<<"update-amazon-linux-2">>, <<"install-start-docker-amazon-linux-2">>}

RECURSIVE pluginsText(_)
pluginsText(ps) ==
    IF ps = <<>> THEN <<>>
    ELSE <<"\n### plugin ">> \o ps[1] \o pluginsText(Tail(ps))

\* plugins.Create(userName, customScript, plugins): the generated script,
\* or an error for a plugin it does not know
pluginsCreate(userName, customScript, ps) ==
    IF \E i \in 1..Len(ps) : ps[i] \notin KnownPlugins
    THEN [txt |-> <<>>, err |-> "plugin not found"]
    ELSE [txt |-> <<"#!/usr/bin/env bash ">> \o userName \o pluginsText(ps) \o customScript,
          err |-> Nil]

-----------------------------------------------------------------------------
(* ec2config: Config                                                       *)

\* Instances map[string]Instance: the nil map, and a map made with make or
\* by the decoder.  (The other maps and the slices of Config are held by
\* their entries alone: no code of the model tells their nil from empty.)
NilMap == [isNil |-> TRUE, entries |-> << >>]

MakeMap(entries) == [isNil |-> FALSE, entries |-> entries]

\* var defaultConfig = Config{...}; a field left out holds its zero value
defaultConfig ==
    [ EnvPrefix                    |-> <<"AWS_K8S_TESTER_EC2_">>,
      AWSRegion                    |-> <<"us-west-2">>,
      LogOutputs                   |-> << <<"stderr">> >>,
      LogOutputToUploadPath        |-> <<>>,
      LogOutputToUploadPathBucket  |-> <<>>,
      UploadTesterLogs             |-> FALSE,
      Tag                          |-> <<>>,
      Tags                         |-> << >>,
      ClusterName                  |-> <<>>,
      DestroyWaitTime              |-> 60,
      ConfigPath                   |-> <<>>,
      ConfigPathBucket             |-> <<>>,
      UpdatedAt                    |-> 0,
      ImageID                      |-> <<"ami-082b5a644766e0e6f">>,
      UserName                     |-> <<"ec2-user">>,
      Plugins                      |-> << <<"update-amazon-linux-2">>,
                                          <<"install-start-docker-amazon-linux-2">> >>,
      InitScript                   |-> <<>>,
      InitScriptCreated            |-> FALSE,
      InstanceType                 |-> <<"m5.large">>,
      ClusterSize                  |-> 1,
      KeyName                      |-> <<>>,
      KeyPath                      |-> <<>>,
      KeyPathBucket                |-> <<>>,
      KeyCreated                   |-> FALSE,
      VPCCreated                   |-> FALSE,
      IngressRulesTCP              |-> [k \in {<<"22">>} |-> <<"0.0.0.0/0">>],
      Instances                    |-> NilMap,
      InstanceProfileFilePath      |-> <<>>,
      InstanceProfileName          |-> <<>>,
      InstanceProfileCreated       |-> FALSE,
      InstanceProfilePolicyName    |-> <<>>,
      InstanceProfilePolicyCreated |-> FALSE,
      InstanceProfileRoleName      |-> <<>>,
      InstanceProfileRoleCreated   |-> FALSE,
      CustomScript                 |-> <<>> ]

\* func NewDefault() *Config
NewDefault == defaultConfig

\* no file has been written
NoFiles == << >>

\* the nil *Config
NilConfig == [isNil |-> TRUE]

NoCall == [op |-> "none", err |-> Nil, pre |-> defaultConfig, env |-> << >>,
           cc |-> defaultConfig, at |-> 0]

\* no ec2config call has been made
CfgIdle ==
    /\ last = NoCall
    /\ prev = [op |-> "none", err |-> Nil]
    /\ calls = 0
    /\ edits = 0
    /\ disk = NoFiles
    /\ loaded = NilConfig
    /\ stores = 0

\* writeConfigMapAuth has not been called
NotWritten == [written |-> FALSE, txt |-> <<>>, err |-> Nil]

AuthIdle ==
    /\ arn = <<>>
    /\ artifact = NotWritten

\* the nil slice, and the slice of n elements filling the array at address a
NilSlice == [ptr |-> 0, len |-> 0, cap |-> 0]

FullSlice(a, n) == [ptr |-> a, len |-> n, cap |-> n]

\* var defaultConfig = Config{...}: the composite literals of lines 260, 270
\* and 296 each make one object; the slice and map fields of defaultConfig
\* refer to them (address 0 is nil).  No Config has been made from it yet.
InitialMem ==
    [ heap |-> << defaultConfig.LogOutputs, defaultConfig.Plugins,
                  defaultConfig.IngressRulesTCP >>,
      def  |-> [ LogOutputs |-> FullSlice(1, Len(defaultConfig.LogOutputs)),
                 Tags |-> 0,
                 Plugins |-> FullSlice(2, Len(defaultConfig.Plugins)),
                 IngressRulesTCP |-> 3 ],
      cfg  |-> [ LogOutputs |-> NilSlice, Tags |-> 0, Plugins |-> NilSlice,
                 IngressRulesTCP |-> 0 ],
      made |-> FALSE,
      ops  |-> 0 ]

MemIdle == mem = InitialMem

-----------------------------------------------------------------------------
(* ec2config: Config.ValidateAndSetDefaults                                *)

\* what the calls of one ValidateAndSetDefaults observe outside the Config:
\* the hour (genTag), the random suffix and temporary file names, whether
\* ioutil.TempFile fails, whether the instance profile file exists
Outside ==
    [epoch : {1, 2}, tempFileFails : BOOLEAN, profileExists : BOOLEAN]

\* genTag(): "ec2-" and the two-digit year, month, day, hour
genTag(in) == IF in.epoch = 1 THEN <<"ec2-26110115">> ELSE <<"ec2-26110116">>

\* randString(5)
randString(in) == IF in.epoch = 1 THEN <<"a1b2c">> ELSE <<"x9y8z">>

\* ioutil.TempFile(os.TempDir(), pattern).Name(), made absolute
TempFile(pattern, in) == Join(TempDir, <<pattern>> \o randString(in))

Ret(c, e) == [cfg |-> c, err |-> e]

RegionFound_Always(region) == TRUE

\* line 424: _, ok := pkgaws.RegionToAiport[cfg.AWSRegion]
RegionFound(region) == region \in DOMAIN RegionToAiport

\* pkgaws.RegionToAiport[region], "" for a region it does not hold
Airport(region) ==
    IF region \in DOMAIN RegionToAiport THEN RegionToAiport[region] ELSE <<>>

NeedInitScript_NoFlag(c) == Len(c.Plugins) > 0

\* line 434: len(cfg.Plugins) > 0 && !cfg.InitScriptCreated
NeedInitScript(c) == Len(c.Plugins) > 0 /\ ~c.InitScriptCreated

BuildInitScript_ClearsFlag(c) ==
    IF NeedInitScript(c)
    THEN LET txt == c.InitScript
             r   == pluginsCreate(c.UserName, c.CustomScript, c.Plugins)
         IN  IF r.err # Nil
             THEN Ret([c EXCEPT !.InitScript = r.txt], r.err)
             ELSE Ret([c EXCEPT !.InitScript = r.txt \o <<"\n">> \o txt,
                                !.InitScriptCreated = TRUE], Nil)
    ELSE Ret([c EXCEPT !.InitScriptCreated = Len(c.Plugins) > 0], Nil)

\* lines 434-442: build the init script from the plugins
BuildInitScript(c) ==
    IF NeedInitScript(c)
    THEN LET txt == c.InitScript
             r   == pluginsCreate(c.UserName, c.CustomScript, c.Plugins)
         IN  IF r.err # Nil
             THEN Ret([c EXCEPT !.InitScript = r.txt], r.err)
             ELSE Ret([c EXCEPT !.InitScript = r.txt \o <<"\n">> \o txt,
                                !.InitScriptCreated = TRUE], Nil)
    ELSE Ret(c, Nil)

SetNames_AlwaysDerives(c, in) ==
    LET c1 == IF c.Tag = <<>> THEN [c EXCEPT !.Tag = genTag(in)] ELSE c
    IN  [c1 EXCEPT !.ClusterName =
            c1.Tag \o <<"-">> \o ToLower(Airport(c1.AWSRegion)) \o <<"-">>
            \o c1.AWSRegion \o <<"-">> \o randString(in)]

\* lines 451-457: Tag and ClusterName
SetNames(c, in) ==
    LET c1 == IF c.Tag = <<>> THEN [c EXCEPT !.Tag = genTag(in)] ELSE c
    IN  IF c1.ClusterName = <<>>
        THEN [c1 EXCEPT !.ClusterName =
                 c1.Tag \o <<"-">> \o ToLower(Airport(c1.AWSRegion)) \o <<"-">>
                 \o c1.AWSRegion \o <<"-">> \o randString(in)]
        ELSE c1

\* lines 459-469: ConfigPath and ConfigPathBucket
SetConfigPath(c, in) ==
    IF c.ConfigPath = <<>> /\ in.tempFileFails
    THEN Ret(c, "TempFile failed")
    ELSE LET c1 == IF c.ConfigPath = <<>>
                   THEN [c EXCEPT !.ConfigPath = TempFile("ec2config", in)]
                   ELSE c
         IN  Ret([c1 EXCEPT !.ConfigPathBucket =
                      Join(c1.ClusterName, <<"ec2config.yaml">>)], Nil)

SetLogOutputs_AlwaysAppend(c) ==
    LET path == Join(TempDir, c.ClusterName \o <<".log">>)
    IN  [c EXCEPT !.LogOutputToUploadPath = path,
                  !.LogOutputs = Append(@, path),
                  !.LogOutputToUploadPathBucket = Join(c.ClusterName, <<"ec2.log">>)]

\* lines 471-483: the log file to upload, appended to LogOutputs when absent
SetLogOutputs(c) ==
    LET path == Join(TempDir, c.ClusterName \o <<".log">>)
        logOutputExist == \E i \in 1..Len(c.LogOutputs) : c.LogOutputs[i] = path
    IN  [c EXCEPT !.LogOutputToUploadPath = path,
                  !.LogOutputs = IF logOutputExist THEN @ ELSE Append(@, path),
                  !.LogOutputToUploadPathBucket = Join(c.ClusterName, <<"ec2.log">>)]

\* lines 485-498: KeyName, KeyPathBucket, KeyPath
SetKey(c, in) ==
    LET c1 == [c EXCEPT !.KeyName = IF @ = <<>> THEN c.ClusterName ELSE @,
                        !.KeyPathBucket = Join(c.ClusterName, <<"ec2.key">>)]
    IN  IF c1.KeyPath = <<>>
        THEN IF in.tempFileFails
             THEN Ret(c1, "TempFile failed")
             ELSE Ret([c1 EXCEPT !.KeyPath = TempFile("ec2.key", in)], Nil)
        ELSE Ret(c1, Nil)

\* lines 500-507: the instance profile names
SetInstanceProfile(c, in) ==
    IF c.InstanceProfileFilePath # <<>>
    THEN IF ~in.profileExists
         THEN Ret(c, "instance profile does not exist")
         ELSE LET name == c.ClusterName \o <<"-instance-profile">>
              IN  Ret([c EXCEPT !.InstanceProfileName = name,
                                !.InstanceProfileRoleName = name \o <<"-role">>,
                                !.InstanceProfilePolicyName = name \o <<"-policy">>], Nil)
    ELSE Ret(c, Nil)

\* lines 451-509, once every check has passed
Derive(c, in) ==
    LET s1 == SetConfigPath(SetNames(c, in), in)
    IN  IF s1.err # Nil THEN s1
        ELSE LET s2 == SetKey(SetLogOutputs(s1.cfg), in)
             IN  IF s2.err # Nil THEN s2
                 ELSE SetInstanceProfile(s2.cfg, in)

\* func (cfg *Config) ValidateAndSetDefaults() (err error): the Config it
\* leaves and the error it returns
ValidateAndSetDefaults(c, in) ==
    IF Len(c.LogOutputs) = 0 THEN Ret(c, "EC2 LogOutputs is not specified")
    ELSE IF c.AWSRegion = <<>> THEN Ret(c, "empty AWSRegion")
    ELSE IF ~RegionFound(c.AWSRegion) THEN Ret(c, "region not found")
    ELSE IF c.UserName = <<>> THEN Ret(c, "empty UserName")
    ELSE IF c.ImageID = <<>> THEN Ret(c, "empty ImageID")
    ELSE LET s == BuildInitScript(c)
         IN  IF s.err # Nil THEN s
             ELSE IF s.cfg.InstanceType = <<>> THEN Ret(s.cfg, "empty InstanceType")
             ELSE IF s.cfg.ClusterSize < 1 THEN Ret(s.cfg, "unexpected ClusterSize")
             ELSE Derive(s.cfg, in)

\* the errors of the six validation checks
ValidationErrors ==
    {"EC2 LogOutputs is not specified", "empty AWSRegion", "region not found",
     "empty UserName", "empty ImageID", "empty InstanceType", "unexpected ClusterSize"}


-----------------------------------------------------------------------------
(* createConfigMap: constants, in units of 5 seconds                       *)

\* waitDur := 5 * time.Minute
waitDur == 60
\* time.After(5 * time.Second)
afterDelay == 1
\* context.WithTimeout(context.Background(), 15*time.Second)
attemptTimeout == 3

NotFired == [at |-> "never", timerReady |-> FALSE, attempts |-> 0]

\* createConfigMap has not been called
LoopIdle ==
    /\ pc = "start"
    /\ now = 0
    /\ retryStart = 0
    /\ waitStart = 0
    /\ attemptStart = 0
    /\ Stopc = FALSE
    /\ Sig = FALSE
    /\ result = "none"
    /\ attempts = 0
    /\ succeeded = 0
    /\ failed = 0
    /\ recorded = 0
    /\ lastRecorded = "none"
    /\ syncs = 0
    /\ fired = NotFired

LoopInit ==
    /\ LoopIdle
    /\ AuthIdle
    /\ MemIdle
    /\ cfg = NewDefault
    /\ CfgIdle

\* the timer channel of time.After(5 * time.Second) has a value
TimerReady == now - waitStart >= afterDelay

\* return <err> from createConfigMap
Return(r) ==
    /\ pc' = "done"
    /\ result' = r

\* lines 17-25: render and write the artifact, then start the retry clock
WriteConfigMapAuth ==
    /\ pc = "start"
    /\ \/ /\ Return("write error")
          /\ UNCHANGED retryStart
       \/ /\ pc' = "check"
          /\ retryStart' = now
          /\ UNCHANGED result
    /\ UNCHANGED <<now, waitStart, attemptStart, Stopc, Sig, attempts, succeeded,
                   failed, recorded, lastRecorded, syncs, fired>>
    /\ UNCHANGED <<cfgVars, authVars, mem>>

\* line 26: for time.Now().Sub(retryStart) < waitDur
LoopCond == now - retryStart < waitDur

\* line 26 true: enter the select, arming time.After
EnterSelect ==
    /\ pc = "check"
    /\ LoopCond
    /\ pc' = "select"
    /\ waitStart' = now
    /\ UNCHANGED <<now, retryStart, attemptStart, Stopc, Sig, result, attempts,
                   succeeded, failed, recorded, lastRecorded, syncs, fired>>
    /\ UNCHANGED <<cfgVars, authVars, mem>>

\* lines 52-54: the loop condition is false: log "created ConfigMap", return Sync()
ExitLoop ==
    /\ pc = "check"
    /\ ~LoopCond
    /\ syncs' = syncs + 1
    /\ \E e \in {"nil", "sync error"} : Return(e)
    /\ UNCHANGED <<now, retryStart, waitStart, attemptStart, Stopc, Sig, attempts,
                   succeeded, failed, recorded, lastRecorded, fired>>
    /\ UNCHANGED <<cfgVars, authVars, mem>>

\* a variant of lines 29 and 31 that returns nil instead of the abort error
SelectAbort_Nil ==
    /\ Return("nil")
    /\ UNCHANGED <<now, retryStart, waitStart, attemptStart, Stopc, Sig, attempts,
                   succeeded, failed, recorded, lastRecorded, syncs, fired>>
    /\ UNCHANGED <<cfgVars, authVars, mem>>

\* lines 29 and 31: return errors.New("create ConfigMap aborted")
SelectAbort ==
    /\ Return("create ConfigMap aborted")
    /\ UNCHANGED <<now, retryStart, waitStart, attemptStart, Stopc, Sig, attempts,
                   succeeded, failed, recorded, lastRecorded, syncs, fired>>
    /\ UNCHANGED <<cfgVars, authVars, mem>>

\* lines 35-41: start the kubectl apply command
StartAttempt ==
    /\ pc' = "attempt"
    /\ attemptStart' = now
    /\ attempts' = attempts + 1
    /\ UNCHANGED <<now, retryStart, waitStart, Stopc, Sig, result, succeeded,
                   failed, recorded, lastRecorded, syncs, fired>>
    /\ UNCHANGED <<cfgVars, authVars, mem>>

SelectStopc_Continue ==
    /\ pc = "select"
    /\ Stopc
    /\ StartAttempt

\* lines 28-29: case <-ts.cfg.Stopc: return errors.New("create ConfigMap aborted")
SelectStopc ==
    /\ pc = "select"
    /\ Stopc
    /\ SelectAbort

SelectSig_Continue ==
    /\ pc = "select"
    /\ Sig
    /\ StartAttempt

\* lines 30-31: case <-ts.cfg.Sig: return errors.New("create ConfigMap aborted")
SelectSig ==
    /\ pc = "select"
    /\ Sig
    /\ SelectAbort

\* line 32: case <-time.After(5 * time.Second): fall through to the attempt
SelectTimer ==
    /\ pc = "select"
    /\ TimerReady
    /\ StartAttempt

OnAttemptError_Retry ==
    /\ failed' = failed + 1
    /\ pc' = "check"
    /\ UNCHANGED <<result, recorded, lastRecorded>>

\* lines 44-46: if err != nil { return fmt.Errorf(...) }
OnAttemptError ==
    /\ failed' = failed + 1
    /\ Return("kubectl error")
    /\ UNCHANGED <<recorded, lastRecorded>>

\* lines 47-51: err == nil: print the output, log "create ConfigMap failed",
\* RecordStatus("create ConfigMap failed (<nil>)"), and go round the loop again
OnAttemptNil ==
    /\ succeeded' = succeeded + 1
    /\ recorded' = recorded + 1
    /\ lastRecorded' = "nil"
    /\ pc' = "check"
    /\ UNCHANGED result

\* lines 36-42: CombinedOutput() returns, within the context's timeout
AttemptFails ==
    /\ pc = "attempt"
    /\ OnAttemptError
    /\ UNCHANGED <<now, retryStart, waitStart, attemptStart, Stopc, Sig, attempts,
                   succeeded, syncs, fired>>
    /\ UNCHANGED <<cfgVars, authVars, mem>>

AttemptSucceeds ==
    /\ pc = "attempt"
    /\ now - attemptStart < attemptTimeout
    /\ OnAttemptNil
    /\ UNCHANGED <<now, retryStart, waitStart, attemptStart, Stopc, Sig, attempts,
                   failed, syncs, fired>>
    /\ UNCHANGED <<cfgVars, authVars, mem>>

\* a cancellation fires: remember where the loop stood the first time
Observe ==
    IF fired.at = "never"
    THEN [at |-> pc, timerReady |-> (pc = "select" /\ TimerReady), attempts |-> attempts]
    ELSE fired

\* environment: close(ts.cfg.Stopc)
FireStopc ==
    /\ pc # "done"
    /\ ~Stopc
    /\ Stopc' = TRUE
    /\ fired' = Observe
    /\ UNCHANGED <<pc, now, retryStart, waitStart, attemptStart, Sig, result,
                   attempts, succeeded, failed, recorded, lastRecorded, syncs>>
    /\ UNCHANGED <<cfgVars, authVars, mem>>

\* environment: a process signal arrives on ts.cfg.Sig
FireSig ==
    /\ pc # "done"
    /\ ~Sig
    /\ Sig' = TRUE
    /\ fired' = Observe
    /\ UNCHANGED <<pc, now, retryStart, waitStart, attemptStart, Stopc, result,
                   attempts, succeeded, failed, recorded, lastRecorded, syncs>>
    /\ UNCHANGED <<cfgVars, authVars, mem>>

\* time passes while the goroutine is blocked: in the select with no case
\* ready, or in CombinedOutput before the context's timeout
Tick ==
    /\ \/ pc = "select" /\ ~TimerReady /\ ~Stopc /\ ~Sig
       \/ pc = "attempt" /\ now - attemptStart < attemptTimeout
    /\ now' = now + 1
    /\ UNCHANGED <<pc, retryStart, waitStart, attemptStart, Stopc, Sig, result,
                   attempts, succeeded, failed, recorded, lastRecorded, syncs, fired>>
    /\ UNCHANGED <<cfgVars, authVars, mem>>

\* the steps of the goroutine running createConfigMap
createConfigMap ==
    \/ WriteConfigMapAuth
    \/ EnterSelect
    \/ ExitLoop
    \/ SelectStopc
    \/ SelectSig
    \/ SelectTimer
    \/ AttemptFails
    \/ AttemptSucceeds

LoopNext ==
    \/ createConfigMap
    \/ FireStopc
    \/ FireSig
    \/ Tick

LoopSpec == LoopInit /\ [][LoopNext]_vars

\* the goroutine is scheduled and the clock advances
LoopFairSpec == LoopSpec /\ WF_vars(createConfigMap) /\ WF_vars(Tick)

-----------------------------------------------------------------------------
(* ec2config: the calls a caller makes on its Config                      *)

\* a call is recorded; the call before it moves to prev
Recorded(op, err, env, cc, at) ==
    /\ last' = [op |-> op, err |-> err, pre |-> cfg, env |-> env, cc |-> cc, at |-> at]
    /\ prev' = [op |-> last.op, err |-> last.err]
    /\ calls' = calls + 1

\* the caller runs cfg.ValidateAndSetDefaults()
CallValidateAndSetDefaults ==
    /\ calls < MaxCalls
    /\ \E in \in Outside :
          LET r == ValidateAndSetDefaults(cfg, in)
          IN  /\ cfg' = r.cfg
              /\ Recorded("ValidateAndSetDefaults", r.err, << >>, r.cfg, 0)
    /\ UNCHANGED <<edits, storeVars, loopVars, authVars, mem>>

\* Config values a caller may hand to ValidateAndSetDefaults: the default
\* configuration with one required field missing or wrong, with or without
\* plugins and an init script, fresh or with its derived fields already set
Invalidate(c, what) ==
    CASE what = "nologs"      -> [c EXCEPT !.LogOutputs = <<>>]
      [] what = "emptyregion" -> [c EXCEPT !.AWSRegion = <<>>]
      [] what = "badregion"   -> [c EXCEPT !.AWSRegion = <<"mars-north-1">>]
      [] what = "nouser"      -> [c EXCEPT !.UserName = <<>>]
      [] what = "noimage"     -> [c EXCEPT !.ImageID = <<>>]
      [] what = "notype"      -> [c EXCEPT !.InstanceType = <<>>]
      [] what = "size0"       -> [c EXCEPT !.ClusterSize = 0]
      [] OTHER                -> c

Prefill(c, what) ==
    CASE what = "name" -> [c EXCEPT !.ClusterName = <<"my-cluster">>]
      [] what = "all"  -> [c EXCEPT !.ClusterName = <<"my-cluster">>,
                                    !.Tag = <<"my-tag">>,
                                    !.ConfigPath = <<"/home/me/ec2config.yaml">>,
                                    !.KeyName = <<"my-key">>,
                                    !.KeyPath = <<"/home/me/ec2.key">>,
                                    !.KeyCreated = TRUE,
                                    !.VPCCreated = TRUE,
                                    !.InstanceProfileCreated = TRUE,
                                    !.InstanceProfilePolicyCreated = TRUE,
                                    !.InstanceProfileRoleCreated = TRUE]
      [] OTHER         -> c

InitConfigs ==
    { [Prefill(Invalidate(defaultConfig, bad), pre) EXCEPT
            !.Plugins = ps,
            !.InitScript = script,
            !.InitScriptCreated = created,
            !.InstanceProfileFilePath = profile] :
        bad \in {"none", "nologs", "emptyregion", "badregion", "nouser", "noimage",
                 "notype", "size0"},
        pre \in {"none", "name", "all"},
        ps \in { <<>>, << <<"update-amazon-linux-2">> >>, << <<"no-such-plugin">> >> },
        script \in { <<>>, <<"echo hi">> },
        created \in BOOLEAN,
        profile \in { <<>>, <<"profile.json">> } }

\* the caller changes one field of the Config it holds between two calls
UserEdits ==
    { [f |-> "LogOutputs",   v |-> << <<"stderr">> >>],
      [f |-> "Tag",          v |-> <<"other-tag">>],
      [f |-> "AWSRegion",    v |-> <<"us-east-1">>],
      [f |-> "InstanceType", v |-> <<"m5.large">>],
      [f |-> "Plugins",      v |-> << <<"install-start-docker-amazon-linux-2">> >>],
      \* the caller lists the log file of cluster "my-cluster" itself, twice
      [f |-> "LogOutputs",   v |-> << <<"stderr">>,
                                      Join(TempDir, <<"my-cluster", ".log">>),
                                      Join(TempDir, <<"my-cluster", ".log">>) >>] }

Edit ==
    /\ edits < MaxEdits
    /\ \E e \in UserEdits :
          /\ cfg[e.f] # e.v
          /\ cfg' = [cfg EXCEPT ![e.f] = e.v]
    /\ last' = [last EXCEPT !.op = "edit"]
    /\ prev' = [op |-> last.op, err |-> last.err]
    /\ edits' = edits + 1
    /\ UNCHANGED <<calls, storeVars, loopVars, authVars, mem>>

FinalizeInit ==
    /\ cfg \in InitConfigs
    /\ CfgIdle
    /\ LoopIdle
    /\ AuthIdle
    /\ MemIdle

FinalizeNext ==
    \/ CallValidateAndSetDefaults
    \/ Edit

FinalizeSpec == FinalizeInit /\ [][FinalizeNext]_vars

-----------------------------------------------------------------------------
(* ec2config: Config.UpdateFromEnvs                                        *)

\* the fields of Config held by the model, in the order the struct declares
\* them: the order reflect visits them in
FieldOrder ==
    << "EnvPrefix", "AWSRegion", "LogOutputs", "LogOutputToUploadPath",
       "LogOutputToUploadPathBucket", "UploadTesterLogs", "Tag", "Tags",
       "ClusterName", "DestroyWaitTime", "ConfigPath", "ConfigPathBucket",
       "UpdatedAt", "ImageID", "UserName", "Plugins", "InitScript",
       "InitScriptCreated", "InstanceType", "ClusterSize", "KeyName", "KeyPath",
       "KeyPathBucket", "KeyCreated", "VPCCreated", "IngressRulesTCP", "Instances",
       "InstanceProfileFilePath", "InstanceProfileName", "InstanceProfileCreated",
       "InstanceProfilePolicyName", "InstanceProfilePolicyCreated",
       "InstanceProfileRoleName", "InstanceProfileRoleCreated", "CustomScript" >>

\* vv.Field(i).Type().Kind() of each field
Kinds ==
    [ EnvPrefix |-> "String",
      AWSRegion |-> "String",
      LogOutputs |-> "Slice",
      LogOutputToUploadPath |-> "String",
      LogOutputToUploadPathBucket |-> "String",
      UploadTesterLogs |-> "Bool",
      Tag |-> "String",
      Tags |-> "Map",
      ClusterName |-> "String",
      DestroyWaitTime |-> "Int",
      ConfigPath |-> "String",
      ConfigPathBucket |-> "String",
      UpdatedAt |-> "Struct",
      ImageID |-> "String",
      UserName |-> "String",
      Plugins |-> "Slice",
      InitScript |-> "String",
      InitScriptCreated |-> "Bool",
      InstanceType |-> "String",
      ClusterSize |-> "Int",
      KeyName |-> "String",
      KeyPath |-> "String",
      KeyPathBucket |-> "String",
      KeyCreated |-> "Bool",
      VPCCreated |-> "Bool",
      IngressRulesTCP |-> "Map",
      Instances |-> "Map",
      InstanceProfileFilePath |-> "String",
      InstanceProfileName |-> "String",
      InstanceProfileCreated |-> "Bool",
      InstanceProfilePolicyName |-> "String",
      InstanceProfilePolicyCreated |-> "Bool",
      InstanceProfileRoleName |-> "String",
      InstanceProfileRoleCreated |-> "Bool",
      CustomScript |-> "String" ]

Kind(f) == Kinds[f]

\* lines 312-318: the json tag of a field without ",omitempty", "-" replaced
\* by "_", upper-cased
EnvKeys ==
    [ EnvPrefix |-> "ENV_PREFIX",
      AWSRegion |-> "AWS_REGION",
      LogOutputs |-> "LOG_OUTPUTS",
      LogOutputToUploadPath |-> "LOG_OUTPUT_TO_UPLOAD_PATH",
      LogOutputToUploadPathBucket |-> "LOG_OUTPUT_TO_UPLOAD_PATH_BUCKET",
      UploadTesterLogs |-> "UPLOAD_TESTER_LOGS",
      Tag |-> "TAG",
      Tags |-> "TAGS",
      ClusterName |-> "CLUSTER_NAME",
      DestroyWaitTime |-> "DESTROY_WAIT_TIME",
      ConfigPath |-> "CONFIG_PATH",
      ConfigPathBucket |-> "CONFIG_PATH_BUCKET",
      UpdatedAt |-> "UPDATED_AT",
      ImageID |-> "IMAGE_ID",
      UserName |-> "USER_NAME",
      Plugins |-> "PLUGINS",
      InitScript |-> "INIT_SCRIPT",
      InitScriptCreated |-> "INIT_SCRIPT_CREATED",
      InstanceType |-> "INSTANCE_TYPE",
      ClusterSize |-> "CLUSTER_SIZE",
      KeyName |-> "KEY_NAME",
      KeyPath |-> "KEY_PATH",
      KeyPathBucket |-> "KEY_PATH_BUCKET",
      KeyCreated |-> "KEY_CREATED",
      VPCCreated |-> "VPC_CREATED",
      IngressRulesTCP |-> "INGRESS_RULES_TCP",
      Instances |-> "INSTANCES",
      InstanceProfileFilePath |-> "INSTANCE_PROFILE_FILE_PATH",
      InstanceProfileName |-> "INSTANCE_PROFILE_NAME",
      InstanceProfileCreated |-> "INSTANCE_PROFILE_CREATED",
      InstanceProfilePolicyName |-> "INSTANCE_PROFILE_POLICY_NAME",
      InstanceProfilePolicyCreated |-> "INSTANCE_PROFILE_POLICY_CREATED",
      InstanceProfileRoleName |-> "INSTANCE_PROFILE_ROLE_NAME",
      InstanceProfileRoleCreated |-> "INSTANCE_PROFILE_ROLE_CREATED",
      CustomScript |-> "CUSTOM_SCRIPT" ]

EnvKey(f) == EnvKeys[f]

\* line 319: env := cfg.EnvPrefix + jv
EnvName(prefix, f) == prefix \o <<EnvKey(f)>>

\* os.Getenv(name): "" for a variable that is not set
Getenv(environ, name) ==
    IF name \in DOMAIN environ THEN environ[name] ELSE <<>>

Digits == <<"0", "1", "2", "3", "4", "5", "6", "7", "8", "9">>

IsDigit(a) == \E i \in 1..10 : Digits[i] = a

DigitValue(a) == (CHOOSE i \in 1..10 : Digits[i] = a) - 1

RECURSIVE DigitsValue(_)
DigitsValue(d) ==
    IF d = <<>> THEN 0
    ELSE DigitsValue(SubSeq(d, 1, Len(d) - 1)) * 10 + DigitValue(d[Len(d)])

\* strconv.ParseBool(sv)
ParseBool(sv) ==
    IF Len(sv) = 1 /\ sv[1] \in {"1", "t", "T", "TRUE", "true", "True"}
    THEN [v |-> TRUE, err |-> Nil]
    ELSE IF Len(sv) = 1 /\ sv[1] \in {"0", "f", "F", "FALSE", "false", "False"}
    THEN [v |-> FALSE, err |-> Nil]
    ELSE [v |-> FALSE, err |-> "invalid syntax"]

\* strconv.ParseInt(sv, 10, 64), for values that fit
ParseInt(sv) ==
    LET signed == sv # <<>> /\ sv[1] \in {"+", "-"}
        d      == IF signed THEN Tail(sv) ELSE sv
    IN  IF d # <<>> /\ \A i \in 1..Len(d) : IsDigit(d[i])
        THEN [v |-> IF signed /\ sv[1] = "-" THEN 0 - DigitsValue(d) ELSE DigitsValue(d),
              err |-> Nil]
        ELSE [v |-> 0, err |-> "invalid syntax"]

\* seconds in a unit of time.ParseDuration; the model counts a
\* time.Duration in seconds, so the units below a second are not modelled
UnitSeconds(u) == CASE u = "s" -> 1 [] u = "m" -> 60 [] u = "h" -> 3600 [] OTHER -> 0

RECURSIVE DurationGroups(_)
\* the groups <digits><unit> of a duration literal
DurationGroups(s) ==
    IF s = <<>> THEN [v |-> 0, err |-> Nil]
    ELSE LET nd == CHOOSE n \in 0..Len(s) :
                      /\ \A i \in 1..n : IsDigit(s[i])
                      /\ (n < Len(s) => ~IsDigit(s[n + 1]))
         IN  IF nd = 0 \/ nd = Len(s) \/ UnitSeconds(s[nd + 1]) = 0
             THEN [v |-> 0, err |-> "invalid duration"]
             ELSE LET rest == DurationGroups(SubSeq(s, nd + 2, Len(s)))
                  IN  IF rest.err # Nil THEN rest
                      ELSE [v |-> DigitsValue(SubSeq(s, 1, nd)) * UnitSeconds(s[nd + 1])
                                  + rest.v,
                            err |-> Nil]

\* time.ParseDuration(sv), for literals without a fraction
ParseDuration(sv) ==
    LET signed == sv # <<>> /\ sv[1] \in {"+", "-"}
        d      == IF signed THEN Tail(sv) ELSE sv
    IN  IF d = <<"0">> THEN [v |-> 0, err |-> Nil]
        ELSE IF d = <<>> THEN [v |-> 0, err |-> "invalid duration"]
        ELSE LET g == DurationGroups(d)
             IN  IF g.err # Nil THEN g
                 ELSE [v |-> IF signed /\ sv[1] = "-" THEN 0 - g.v ELSE g.v, err |-> Nil]

RECURSIVE ParsePairs_Lenient(_, _)
ParsePairs_Lenient(pairs, m) ==
    IF pairs = <<>> THEN [v |-> m, err |-> Nil]
    ELSE LET fields == Split(pairs[1], "=")
         IN  IF Len(fields) < 2
             THEN [v |-> m, err |-> "map has unexpected format"]
             ELSE ParsePairs_Lenient(Tail(pairs),
                             [k \in DOMAIN m \cup {fields[1]} |->
                                 IF k = fields[1] THEN fields[2] ELSE m[k]])

RECURSIVE ParsePairs(_, _)
\* lines 335-341: the pairs of a map override, put one by one into map m
ParsePairs(pairs, m) ==
    IF pairs = <<>> THEN [v |-> m, err |-> Nil]
    ELSE LET fields == Split(pairs[1], "=")
         IN  IF Len(fields) # 2
             THEN [v |-> m, err |-> "map has unexpected format"]
             ELSE ParsePairs(Tail(pairs),
                             [k \in DOMAIN m \cup {fields[1]} |->
                                 IF k = fields[1] THEN fields[2] ELSE m[k]])

ApplyField_SkipsUnsupported(cc, f, sv) ==
    CASE Kind(f) = "String" -> Ret([cc EXCEPT ![f] = sv], Nil)
      [] Kind(f) = "Map" ->
            IF f \in {"Tags", "IngressRulesTCP"}
            THEN LET r == ParsePairs(Split(sv, ","), << >>)
                 IN  Ret([cc EXCEPT ![f] = r.v], r.err)
            ELSE Ret(cc, Nil)
      [] Kind(f) = "Bool" ->
            LET r == ParseBool(sv)
            IN  IF r.err # Nil THEN Ret(cc, "failed to parse")
                ELSE Ret([cc EXCEPT ![f] = r.v], Nil)
      [] Kind(f) = "Int" ->
            LET r == IF f = "DestroyWaitTime" THEN ParseDuration(sv) ELSE ParseInt(sv)
            IN  IF r.err # Nil THEN Ret(cc, "failed to parse")
                ELSE Ret([cc EXCEPT ![f] = r.v], Nil)
      [] Kind(f) = "Slice" ->
            IF f \in {"Plugins", "SubnetIDs", "SecurityGroupIDs"}
            THEN Ret([cc EXCEPT ![f] = Split(sv, ",")], Nil)
            ELSE Ret(cc, Nil)
      [] OTHER -> Ret(cc, Nil)

\* lines 326-401: the switch on the kind of field f, with override sv
ApplyField(cc, f, sv) ==
    CASE Kind(f) = "String" -> Ret([cc EXCEPT ![f] = sv], Nil)
      [] Kind(f) = "Map" ->
            IF f \in {"Tags", "IngressRulesTCP"}
            THEN LET r == ParsePairs(Split(sv, ","), << >>)
                 IN  Ret([cc EXCEPT ![f] = r.v], r.err)
            ELSE Ret(cc, "parsing field name not supported")
      [] Kind(f) = "Bool" ->
            LET r == ParseBool(sv)
            IN  IF r.err # Nil THEN Ret(cc, "failed to parse")
                ELSE Ret([cc EXCEPT ![f] = r.v], Nil)
      [] Kind(f) = "Int" ->
            LET r == IF f = "DestroyWaitTime" THEN ParseDuration(sv) ELSE ParseInt(sv)
            IN  IF r.err # Nil THEN Ret(cc, "failed to parse")
                ELSE Ret([cc EXCEPT ![f] = r.v], Nil)
      [] Kind(f) = "Slice" ->
            IF f \in {"Plugins", "SubnetIDs", "SecurityGroupIDs"}
            THEN Ret([cc EXCEPT ![f] = Split(sv, ",")], Nil)
            ELSE Ret(cc, "parsing field name not supported")
      [] OTHER -> Ret(cc, "is not supported as an env")

RECURSIVE ApplyEnvs(_, _, _, _)
\* lines 311-402: the loop over the fields, from field i on; at is the index
\* of the field the loop returned an error at, 0 when it ran to its end
ApplyEnvs(cc, i, environ, prefix) ==
    IF i > Len(FieldOrder) THEN [cfg |-> cc, err |-> Nil, at |-> 0]
    ELSE LET f  == FieldOrder[i]
             sv == Getenv(environ, EnvName(prefix, f))
         IN  IF sv = <<>> THEN ApplyEnvs(cc, i + 1, environ, prefix)
             ELSE LET r == ApplyField(cc, f, sv)
                  IN  IF r.err # Nil THEN [cfg |-> r.cfg, err |-> r.err, at |-> i]
                      ELSE ApplyEnvs(r.cfg, i + 1, environ, prefix)

WriteBack_Always(c, cc, err) == cc

WriteBack_Never(c, cc, err) == c

\* lines 308 and 403: the loop works on the copy cc := *cfg, and *cfg = cc is
\* reached only when no field returned an error
WriteBack(c, cc, err) == IF err = Nil THEN cc ELSE c

\* func (cfg *Config) UpdateFromEnvs() error: the Config it leaves, the
\* error it returns, the working copy and the failing field
UpdateFromEnvs(c, environ) ==
    LET r == ApplyEnvs(c, 1, environ, c.EnvPrefix)
    IN  [cfg |-> WriteBack(c, r.cfg, r.err), err |-> r.err, cc |-> r.cfg, at |-> r.at]

\* override values tried for a field: well-formed and malformed literals
EnvValues(f) ==
    CASE f = "AWSRegion" -> { <<"us-east-1">> }
      [] f = "LogOutputs" -> { <<"stdout">> }
      [] f = "UploadTesterLogs" -> { <<"true">>, <<"maybe">> }
      [] f = "Tags" -> { <<"a", "=", "b">>, <<"a", "=", "b", ",", "c">> }
      [] f = "DestroyWaitTime" -> { <<"9", "0", "s">>, <<"9", "0">> }
      [] f = "UpdatedAt" -> { <<"today">> }
      [] f = "Plugins" -> { <<"update-amazon-linux-2", ",", "no-such-plugin">> }
      [] f = "ClusterSize" -> { <<"1", "2">>, <<"three">> }
      [] f = "IngressRulesTCP" ->
            { <<"22", "=", "0.0.0.0/0", ",", "80", "=", "10.0.0.0/8">>,
              <<"80", "=", "10.0.0.0/8", "=", "x">> }
      [] f = "Instances" -> { <<"i-0abc">> }
      [] OTHER -> { <<"text">> }

\* the fields the environment overrides in the model
Overridable ==
    {"AWSRegion", "LogOutputs", "UploadTesterLogs", "Tags", "DestroyWaitTime",
     "UpdatedAt", "Plugins", "ClusterSize", "IngressRulesTCP", "Instances"}

RECURSIVE EnvironsOver(_)
EnvironsOver(S) ==
    IF S = {} THEN { << >> }
    ELSE LET f == CHOOSE x \in S : TRUE
         IN  { e @@ (EnvName(defaultConfig.EnvPrefix, f) :> v) :
                 e \in EnvironsOver(S \ {f}), v \in EnvValues(f) }

\* the process environments tried: at most MaxEnvVars variables set
Environs ==
    UNION { EnvironsOver(S) : S \in {T \in SUBSET Overridable : Cardinality(T) <= MaxEnvVars} }

\* Config values a caller may hand to UpdateFromEnvs
EnvInitConfigs ==
    { defaultConfig,
      [defaultConfig EXCEPT !.Tags = [k \in {<<"team">>} |-> <<"eks">>],
                            !.UploadTesterLogs = TRUE,
                            !.ClusterSize = 2,
                            !.CustomScript = <<"echo hi">>] }

\* the caller runs cfg.UpdateFromEnvs() in some process environment
CallUpdateFromEnvs ==
    /\ calls < MaxEnvCalls
    /\ \E environ \in Environs :
          LET r == UpdateFromEnvs(cfg, environ)
          IN  /\ cfg' = r.cfg
              /\ Recorded("UpdateFromEnvs", r.err, environ, r.cc, r.at)
    /\ UNCHANGED <<edits, storeVars, loopVars, authVars, mem>>

EnvInit ==
    /\ cfg \in EnvInitConfigs
    /\ CfgIdle
    /\ LoopIdle
    /\ AuthIdle
    /\ MemIdle

EnvNext == CallUpdateFromEnvs

EnvSpec == EnvInit /\ [][EnvNext]_vars

-----------------------------------------------------------------------------
(* ec2config: Config.Sync and Load                                         *)

\* Sync and Load calls made on one Config in a run of StoreSpec
MaxStores == 2

\* os.Getwd()
Cwd == <<"/work">>

\* the atoms of the model's paths that begin with the path separator
RootedAtoms == {"/tmp", "/work", "/home/me/ec2config.yaml", "/home/me/ec2.key"}

\* filepath.IsAbs(p)
IsAbs(p) == p # <<>> /\ p[1] \in RootedAtoms

\* filepath.Abs(p): p when it is absolute, else the working directory joined
\* with p; "" and an error when os.Getwd fails.  (The paths of the model
\* are clean: no ".", "..", doubled or trailing separator.)
Abs(p, getwdFails) ==
    IF IsAbs(p) THEN [v |-> p, err |-> Nil]
    ELSE IF getwdFails THEN [v |-> <<>>, err |-> "getwd failed"]
    ELSE [v |-> Join(Cwd, p), err |-> Nil]

\* the file the operating system opens for path p
Resolve(p) == IF IsAbs(p) THEN p ELSE Join(Cwd, p)

\* the directories of the model's file system
IsDir(p) == p \in {Cwd, TempDir, <<>>}

\* the json tag of each field: the key of the field in the YAML document
JsonTags ==
    [ EnvPrefix |-> "env-prefix",
      AWSRegion |-> "aws-region",
      LogOutputs |-> "log-outputs",
      LogOutputToUploadPath |-> "log-output-to-upload-path",
      LogOutputToUploadPathBucket |-> "log-output-to-upload-path-bucket",
      UploadTesterLogs |-> "upload-tester-logs",
      Tag |-> "tag",
      Tags |-> "tags",
      ClusterName |-> "cluster-name",
      DestroyWaitTime |-> "destroy-wait-time",
      ConfigPath |-> "config-path",
      ConfigPathBucket |-> "config-path-bucket",
      UpdatedAt |-> "updated-at",
      ImageID |-> "image-id",
      UserName |-> "user-name",
      Plugins |-> "plugins",
      InitScript |-> "init-script",
      InitScriptCreated |-> "init-script-created",
      InstanceType |-> "instance-type",
      ClusterSize |-> "cluster-size",
      KeyName |-> "key-name",
      KeyPath |-> "key-path",
      KeyPathBucket |-> "key-path-bucket",
      KeyCreated |-> "key-created",
      VPCCreated |-> "vpc-created",
      IngressRulesTCP |-> "ingress-rules-tcp",
      Instances |-> "instances",
      InstanceProfileFilePath |-> "instance-profile-file-path",
      InstanceProfileName |-> "instance-profile-name",
      InstanceProfileCreated |-> "instance-profile-created",
      InstanceProfilePolicyName |-> "instance-profile-policy-name",
      InstanceProfilePolicyCreated |-> "instance-profile-policy-created",
      InstanceProfileRoleName |-> "instance-profile-role-name",
      InstanceProfileRoleCreated |-> "instance-profile-role-created",
      CustomScript |-> "custom-script" ]

JsonTag(f) == JsonTags[f]

\* the fields tagged ",omitempty"
OmitEmpty == {"DestroyWaitTime"}

\* the fields yaml.Marshal writes: all but an omitempty field that is zero
Marshalled(c) == { f \in DOMAIN JsonTags : ~(f \in OmitEmpty /\ c[f] = 0) }

\* the YAML value of field f holding v: a scalar, a sequence, a mapping, or
\* null for the nil map
Encode(f, v) ==
    CASE f = "Instances" -> IF v.isNil THEN [t |-> "null", v |-> <<>>]
                            ELSE [t |-> "mapping", v |-> v.entries]
      [] Kind(f) = "String" -> [t |-> "string", v |-> v]
      [] Kind(f) = "Bool"   -> [t |-> "bool", v |-> v]
      [] Kind(f) = "Int"    -> [t |-> "number", v |-> v]
      [] Kind(f) = "Struct" -> [t |-> "timestamp", v |-> v]
      [] Kind(f) = "Slice"  -> [t |-> "sequence", v |-> v]
      [] Kind(f) = "Map"    -> [t |-> "mapping", v |-> v]

\* the field a key of the document belongs to
FieldOfTag ==
    [ k \in { JsonTag(f) : f \in DOMAIN JsonTags } |->
        CHOOSE f \in DOMAIN JsonTags : JsonTag(f) = k ]

\* yaml.Marshal(cfg): the document, key by key
Marshal(c) ==
    [ k \in { JsonTag(f) : f \in Marshalled(c) } |->
        Encode(FieldOfTag[k], c[FieldOfTag[k]]) ]

\* the zero value of field f: what new(Config) holds
ZeroValue(f) ==
    CASE f = "Instances" -> NilMap
      [] Kind(f) = "Bool" -> FALSE
      [] Kind(f) \in {"Int", "Struct"} -> 0
      [] OTHER -> <<>>

\* what the decoder stores into field f for YAML value e: null leaves the
\* field as it is in new(Config); a mapping decodes into a map it makes
Decode(f, e) ==
    IF e.t = "null" THEN ZeroValue(f)
    ELSE IF f = "Instances" THEN MakeMap(e.v)
    ELSE e.v

\* yaml.Unmarshal(d, cfg) into cfg = new(Config): the keys of the document
\* are decoded, a field without key keeps its zero value
Unmarshal(doc) ==
    [ f \in DOMAIN JsonTags |->
        IF JsonTag(f) \in DOMAIN doc THEN Decode(f, doc[JsonTag(f)]) ELSE ZeroValue(f) ]

\* a file holding document doc, and a file that is no YAML document of a
\* Config (written by something else, or cut short)
YamlFile(doc) == [valid |-> TRUE, doc |-> doc]

GarbageFile == [valid |-> FALSE, doc |-> << >>]

\* what the outside decides for one Sync or Load call: whether os.Getwd
\* fails, and how ioutil.WriteFile ends
StoreOutside ==
    [getwdFails : BOOLEAN, write : {"ok", "open fails", "short write"}]

\* time.Now(): every Sync or Load call is made at a later instant
Clock == stores + 1

\* func (cfg *Config) Sync() (err error): the Config it leaves, the error it
\* returns and the files it leaves
Sync(c, files, at, in) ==
    LET a  == IF IsAbs(c.ConfigPath) THEN [v |-> c.ConfigPath, err |-> Nil]
              ELSE Abs(c.ConfigPath, in.getwdFails)
        c1 == [c EXCEPT !.ConfigPath = a.v]
        c2 == [c1 EXCEPT !.UpdatedAt = at]
        d  == Marshal(c2)
    IN  IF a.err # Nil THEN [cfg |-> c1, err |-> a.err, disk |-> files]
        ELSE IF IsDir(c2.ConfigPath) \/ in.write = "open fails"
        THEN [cfg |-> c2, err |-> "open failed", disk |-> files]
        ELSE IF in.write = "short write"
        THEN [cfg |-> c2, err |-> "short write",
              disk |-> (c2.ConfigPath :> GarbageFile) @@ files]
        ELSE [cfg |-> c2, err |-> Nil,
              disk |-> (c2.ConfigPath :> YamlFile(d)) @@ files]

LoadInstances_Keep(v) == v

\* lines 534-536: if cfg.Instances == nil { cfg.Instances = make(...) }
LoadInstances(v) == IF v.isNil THEN MakeMap(<< >>) ELSE v

\* func Load(p string) (cfg *Config, err error)
Load(p, files, in) ==
    IF Resolve(p) \notin DOMAIN files
    THEN [cfg |-> NilConfig, err |-> "read failed"]
    ELSE IF ~files[Resolve(p)].valid
    THEN [cfg |-> NilConfig, err |-> "unmarshal failed"]
    ELSE LET c == Unmarshal(files[Resolve(p)].doc)
             a == Abs(p, in.getwdFails)
         IN  IF a.err # Nil THEN [cfg |-> NilConfig, err |-> a.err]
             ELSE [cfg |-> [isNil |-> FALSE,
                            cfg |-> [c EXCEPT !.Instances = LoadInstances(@),
                                              !.ConfigPath = a.v]],
                   err |-> Nil]

\* the caller runs cfg.Sync()
CallSync ==
    /\ stores < MaxStores
    /\ \E in \in StoreOutside :
          LET r == Sync(cfg, disk, Clock, in)
          IN  /\ cfg' = r.cfg
              /\ disk' = r.disk
              /\ last' = [op |-> "Sync", err |-> r.err, pre |-> cfg, env |-> <<>>,
                          cc |-> r.cfg, at |-> 0]
    /\ prev' = [op |-> last.op, err |-> last.err]
    /\ stores' = stores + 1
    /\ UNCHANGED <<loaded, calls, edits, loopVars, authVars, mem>>

\* the paths a caller passes to Load: the path of its Config, the path the
\* Config had before the last call, a file nobody wrote
LoadPaths == {cfg.ConfigPath, last.pre.ConfigPath, <<"missing.yaml">>}

\* the caller runs Load(p); the Config it holds stays as it is
CallLoad ==
    /\ stores < MaxStores
    /\ \E p \in LoadPaths, in \in StoreOutside :
          LET r == Load(p, disk, in)
          IN  /\ loaded' = r.cfg
              /\ last' = [op |-> "Load", err |-> r.err, pre |-> cfg, env |-> p,
                          cc |-> cfg, at |-> 0]
    /\ prev' = [op |-> last.op, err |-> last.err]
    /\ stores' = stores + 1
    /\ UNCHANGED <<cfg, disk, calls, edits, loopVars, authVars, mem>>

\* Config values a caller holds before its first Sync: the default one (no
\* path, no instance map), one with a relative path and a zero
\* DestroyWaitTime, one with absolute paths and an empty instance map, one
\* with tags and an instance
StoreInitConfigs ==
    { NewDefault,
      [Prefill(NewDefault, "name") EXCEPT !.ConfigPath = <<"ec2config.yaml">>,
                                          !.DestroyWaitTime = 0],
      [Prefill(NewDefault, "all") EXCEPT !.Instances = MakeMap(<< >>)],
      [Prefill(NewDefault, "all") EXCEPT
            !.Tags = (<<"team">> :> <<"eks">>),
            !.Instances = MakeMap(<<"i-0abc">> :> <<"running">>)] }

\* the files on disk before the first call: none, or at both paths of the
\* model a file that is no YAML document, or the file an earlier run wrote
StoreInitDisks ==
    { NoFiles } \cup
    { (<<"/home/me/ec2config.yaml">> :> file) @@
      (Join(Cwd, <<"ec2config.yaml">>) :> file) :
        file \in { GarbageFile,
                   YamlFile(Marshal([NewDefault EXCEPT !.ClusterName = <<"old-cluster">>])) } }

StoreInit ==
    /\ cfg \in StoreInitConfigs
    /\ disk \in StoreInitDisks
    /\ last = NoCall
    /\ prev = [op |-> "none", err |-> Nil]
    /\ calls = 0
    /\ edits = 0
    /\ loaded = NilConfig
    /\ stores = 0
    /\ LoopIdle
    /\ AuthIdle
    /\ MemIdle

StoreNext ==
    \/ CallSync
    \/ CallLoad

StoreSpec == StoreInit /\ [][StoreNext]_vars

\* the life of one Config: it is validated, edited by its user and synced
LifecycleInit ==
    /\ cfg \in { NewDefault,
                 [Prefill(NewDefault, "name") EXCEPT !.ConfigPath = <<"ec2config.yaml">>] }
    /\ CfgIdle
    /\ LoopIdle
    /\ AuthIdle
    /\ MemIdle

LifecycleNext ==
    \/ CallValidateAndSetDefaults
    \/ Edit
    \/ CallSync

LifecycleSpec == LifecycleInit /\ [][LifecycleNext]_vars

-----------------------------------------------------------------------------
(* eks/ng/configmap.go: writeConfigMapAuth                                 *)
(*                                                                         *)
(* Text is a sequence of atoms.  A formatting verb ("%s", "%d"), the       *)
(* escaped percent sign ("%%"), the template action and the placeholder    *)
(* token are atoms of their own; any other atom is text without "%" and    *)
(* without "{{".                                                           *)

\* atoms a role ARN is made of in one run of AuthSpec
MaxArnLen == 3

\* what a role ARN is made of: an ARN as IAM issues it, and the pieces a
\* string may hold besides
ArnAtoms == {"arn:aws:iam::123456789012:role/ng", "%s", "%d", "%%"}

Arns == UNION { [1..n -> ArnAtoms] : n \in 1..MaxArnLen }

\* const configMapAuthTempl
configMapAuthTempl ==
    << "---\napiVersion: v1\nkind: ConfigMap\nmetadata:\n  name: aws-auth\n  namespace: kube-system\ndata:\n  mapRoles: |\n    - rolearn: ",
       "{{.NGInstanceRoleARN}}",
       "\n      ",
       "%s",
       "\n      groups:\n      - system:bootstrappers\n      - system:nodes\n" >>

\* the argument of fmt.Sprintf at line 85
UsernameLine == <<"username: system:node:", "{{EC2PrivateDNSName}}">>

RECURSIVE Execute(_, _)
\* tpl.Execute(buf, kc) of text/template: the action is replaced by the
\* field of kc as it is, the text around it is copied
Execute(tpl, kc) ==
    IF tpl = <<>> THEN <<>>
    ELSE (IF Head(tpl) = "{{.NGInstanceRoleARN}}" THEN kc.NGInstanceRoleARN
          ELSE <<Head(tpl)>>) \o Execute(Tail(tpl), kc)

RECURSIVE Sprintf(_, _)
\* fmt.Sprintf(format, args...) with string arguments: %s prints the next
\* argument, %d reports it as a bad operand, both report a missing one; %%
\* prints a percent sign; arguments left over are reported at the end
Sprintf(format, args) ==
    IF format = <<>>
    THEN IF args = <<>> THEN <<>>
         ELSE <<"%!(EXTRA string=">> \o Head(args) \o <<")">>
    ELSE CASE Head(format) = "%%" -> <<"%">> \o Sprintf(Tail(format), args)
           [] Head(format) = "%s" ->
                 IF args = <<>> THEN <<"%!s(MISSING)">> \o Sprintf(Tail(format), args)
                 ELSE Head(args) \o Sprintf(Tail(format), Tail(args))
           [] Head(format) = "%d" ->
                 IF args = <<>> THEN <<"%!d(MISSING)">> \o Sprintf(Tail(format), args)
                 ELSE <<"%!d(string=">> \o Head(args) \o <<")">>
                      \o Sprintf(Tail(format), Tail(args))
           [] OTHER -> <<Head(format)>> \o Sprintf(Tail(format), args)

\* func writeConfigMapAuth(arn string) (p string, err error): the text of
\* the file at p, and err
writeConfigMapAuth(a, writeFails) ==
    LET kc  == [NGInstanceRoleARN |-> a]
        buf == Execute(configMapAuthTempl, kc)
        txt == Sprintf(buf, <<UsernameLine>>)
    IN  IF writeFails THEN [written |-> FALSE, txt |-> <<>>, err |-> "write failed"]
        ELSE [written |-> TRUE, txt |-> txt, err |-> Nil]

\* writeConfigMapAuth is called with the role ARN
CallWriteConfigMapAuth ==
    /\ artifact = NotWritten
    /\ \E writeFails \in BOOLEAN : artifact' = writeConfigMapAuth(arn, writeFails)
    /\ UNCHANGED <<arn, mem, cfgVars, loopVars>>

AuthInit ==
    /\ arn \in Arns
    /\ artifact = NotWritten
    /\ MemIdle
    /\ cfg = NewDefault
    /\ CfgIdle
    /\ LoopIdle

AuthNext == CallWriteConfigMapAuth

AuthSpec == AuthInit /\ [][AuthNext]_vars

-----------------------------------------------------------------------------
(* ec2config: defaultConfig, NewDefault and the objects they share         *)
(*                                                                         *)
(* A slice field is a header (ptr, len, cap) into an array of the heap, a  *)
(* map field the address of a map of the heap.  Copying a Config copies    *)
(* the headers and addresses, not the objects.                             *)

\* NewDefault, UpdateFromEnvs and ValidateAndSetDefaults calls made in one
\* run of DefaultSpec
MaxHeapOps == 3

\* the elements of slice sl
SliceValue(heap, sl) == IF sl.ptr = 0 THEN <<>> ELSE SubSeq(heap[sl.ptr], 1, sl.len)

\* the entries of the map at address a
MapValue(heap, a) == IF a = 0 THEN << >> ELSE heap[a]

\* the slice and map fields of a Config as values
RefsValue(heap, refs) ==
    [ LogOutputs |-> SliceValue(heap, refs.LogOutputs),
      Tags |-> MapValue(heap, refs.Tags),
      Plugins |-> SliceValue(heap, refs.Plugins),
      IngressRulesTCP |-> MapValue(heap, refs.IngressRulesTCP) ]

\* func NewDefault() *Config: vv := defaultConfig; return &vv
HeapNewDefault(m) == [m EXCEPT !.cfg = m.def, !.made = TRUE]

\* append(sl, x): in place when the array has room, else into a new array
\* of twice the capacity
HeapAppend(heap, sl, x) ==
    IF sl.len < sl.cap
    THEN [heap |-> [heap EXCEPT ![sl.ptr][sl.len + 1] = x],
          slice |-> [sl EXCEPT !.len = @ + 1]]
    ELSE LET newcap == IF sl.cap = 0 THEN 1 ELSE 2 * sl.cap
         IN  [heap |-> Append(heap, SliceValue(heap, sl) \o <<x>>
                                    \o [i \in 1..(newcap - sl.len - 1) |-> <<>>]),
              slice |-> [ptr |-> Len(heap) + 1, len |-> sl.len + 1, cap |-> newcap]]

\* lines 471-482 of ValidateAndSetDefaults on the heap: path is appended to
\* cfg.LogOutputs when no element is equal to it
HeapValidateAndSetDefaults(m, path) ==
    LET outs == SliceValue(m.heap, m.cfg.LogOutputs)
        r    == HeapAppend(m.heap, m.cfg.LogOutputs, path)
    IN  IF \E i \in 1..Len(outs) : outs[i] = path THEN m
        ELSE [m EXCEPT !.heap = r.heap, !.cfg.LogOutputs = r.slice]

SetMapField_InPlace(heap, refs, f, sv) ==
    IF refs[f] = 0
    THEN LET r == ParsePairs(Split(sv, ","), << >>)
         IN  [heap |-> Append(heap, r.v),
              refs |-> [refs EXCEPT ![f] = Len(heap) + 1],
              err |-> r.err]
    ELSE LET r == ParsePairs(Split(sv, ","), heap[refs[f]])
         IN  [heap |-> [heap EXCEPT ![refs[f]] = r.v], refs |-> refs, err |-> r.err]

\* lines 334-341: the field is set to a map made by reflect.MakeMap, the
\* pairs are put into that map
SetMapField(heap, refs, f, sv) ==
    LET r == ParsePairs(Split(sv, ","), << >>)
    IN  [heap |-> Append(heap, r.v),
         refs |-> [refs EXCEPT ![f] = Len(heap) + 1],
         err |-> r.err]

\* lines 389-394: the field is set to a slice made by reflect.MakeSlice,
\* the parts are put into it
SetSliceField(heap, refs, f, sv) ==
    [heap |-> Append(heap, Split(sv, ",")),
     refs |-> [refs EXCEPT ![f] = FullSlice(Len(heap) + 1, Len(Split(sv, ",")))],
     err |-> Nil]

\* the slice and map fields UpdateFromEnvs sets, in the order of the struct
HeapFields == <<"Tags", "Plugins", "IngressRulesTCP">>

RECURSIVE HeapApplyEnvs(_, _, _, _)
\* lines 311-402 on the heap, from field i of HeapFields on, on the copy cc
HeapApplyEnvs(heap, cc, i, environ) ==
    IF i > Len(HeapFields) THEN [heap |-> heap, refs |-> cc, err |-> Nil]
    ELSE LET f  == HeapFields[i]
             sv == Getenv(environ, EnvName(defaultConfig.EnvPrefix, f))
         IN  IF sv = <<>> THEN HeapApplyEnvs(heap, cc, i + 1, environ)
             ELSE LET r == IF Kind(f) = "Map" THEN SetMapField(heap, cc, f, sv)
                           ELSE SetSliceField(heap, cc, f, sv)
                  IN  IF r.err # Nil THEN r
                      ELSE HeapApplyEnvs(r.heap, r.refs, i + 1, environ)

\* UpdateFromEnvs on the heap: cc := *cfg copies the headers and addresses,
\* *cfg = cc is reached when no field failed
HeapUpdateFromEnvs(m, environ) ==
    LET r == HeapApplyEnvs(m.heap, m.cfg, 1, environ)
    IN  [m EXCEPT !.heap = r.heap,
                  !.cfg = IF r.err = Nil THEN r.refs ELSE m.cfg]

\* the process environments tried: overrides of the slice and map fields
HeapEnvirons ==
    UNION { EnvironsOver(S) : S \in SUBSET {"Tags", "Plugins", "IngressRulesTCP"} }

\* the log files ValidateAndSetDefaults derives for two cluster names
HeapLogPaths ==
    { Join(TempDir, <<"my-cluster", ".log">>), Join(TempDir, <<"other-cluster", ".log">>) }

\* the caller runs NewDefault() and keeps the Config it returns
CallNewDefault ==
    /\ mem.ops < MaxHeapOps
    /\ mem' = [HeapNewDefault(mem) EXCEPT !.ops = @ + 1]
    /\ UNCHANGED <<authVars, cfgVars, loopVars>>

\* the caller runs UpdateFromEnvs on the Config NewDefault returned
HeapCallUpdateFromEnvs ==
    /\ mem.ops < MaxHeapOps
    /\ mem.made
    /\ \E environ \in HeapEnvirons :
          mem' = [HeapUpdateFromEnvs(mem, environ) EXCEPT !.ops = @ + 1]
    /\ UNCHANGED <<authVars, cfgVars, loopVars>>

\* the caller runs ValidateAndSetDefaults on the Config NewDefault returned
HeapCallValidateAndSetDefaults ==
    /\ mem.ops < MaxHeapOps
    /\ mem.made
    /\ \E path \in HeapLogPaths :
          mem' = [HeapValidateAndSetDefaults(mem, path) EXCEPT !.ops = @ + 1]
    /\ UNCHANGED <<authVars, cfgVars, loopVars>>

DefaultInit ==
    /\ MemIdle
    /\ AuthIdle
    /\ cfg = NewDefault
    /\ CfgIdle
    /\ LoopIdle

DefaultNext ==
    \/ CallNewDefault
    \/ HeapCallUpdateFromEnvs
    \/ HeapCallValidateAndSetDefaults

DefaultSpec == DefaultInit /\ [][DefaultNext]_vars

-----------------------------------------------------------------------------
(* Properties of createConfigMap                                           *)

Aborted == "create ConfigMap aborted"

\* a cancellation fired while createConfigMap was inside its retry loop
FiredInLoop == fired.at \in {"check", "select", "attempt"}

\* a cancellation fired while the select was blocked, its timer not yet elapsed
FiredInWait == fired.at = "select" /\ ~fired.timerReady

\* C1: a successful apply attempt is terminal: once an attempt has succeeded
\* the loop neither waits nor starts another attempt, and when it has
\* returned it has called Sync exactly once.
C1_SuccessIsTerminal ==
    succeeded >= 1 =>
        /\ pc \in {"check", "done"}
        /\ succeeded = 1
        /\ (pc = "done" => syncs = 1)

\* C2: a failed attempt is retried: an error of the client is returned to
\* the caller only once the overall deadline is exhausted.
C2_FailureIsRetried ==
    result = "kubectl error" => now - retryStart >= waitDur

\* C3: a cancellation that fires during the inter-attempt wait makes the
\* loop return the abort error without running the client again, whatever
\* deadline remains.
C3_CancelDuringWaitAborts ==
    FiredInWait =>
        /\ attempts = fired.attempts
        /\ pc \in {"select", "done"}
        /\ (pc = "done" => result = Aborted)

C3_Witness ==
    /\ FiredInWait
    /\ pc = "done"
    /\ result = Aborted
    /\ succeeded >= 1
    /\ now - retryStart < waitDur - afterDelay

\* C7: in every run where no attempt ever succeeds and no cancellation ever
\* fires, createConfigMap returns, and does so no later than the overall
\* deadline plus one inter-attempt delay after the loop started.
C7_AlwaysFailingTerminates ==
    [](succeeded = 0 /\ ~Stopc /\ ~Sig)
        => <>(pc = "done" /\ now - retryStart <= waitDur + afterDelay)

C7_Witness ==
    /\ pc = "done"
    /\ result = "kubectl error"
    /\ failed >= 1
    /\ succeeded = 0
    /\ ~Stopc
    /\ ~Sig

\* C8 as stated: once a cancellation has fired at any point of the loop, no
\* new attempt is started and the loop ends with the abort error.
C8_CancelAlwaysWins ==
    FiredInLoop =>
        /\ attempts = fired.attempts
        /\ (pc = "done" => result = Aborted)

\* C8 as amended: once a cancellation has fired, no new attempt is started,
\* except the one attempt whose delay had already elapsed when the signal
\* fired; a running attempt is not interrupted, so the loop ends with the
\* abort error unless such an attempt fails (its error is returned) or the
\* deadline has elapsed when the loop condition is next read (Sync's result
\* is returned).
C8_CancelWinsAtNextWait ==
    FiredInLoop =>
        /\ attempts <= fired.attempts + (IF fired.timerReady THEN 1 ELSE 0)
        /\ (pc = "done" =>
              \/ result = Aborted
              \/ /\ result = "kubectl error"
                 /\ (fired.at = "attempt" \/ fired.timerReady)
              \/ /\ result \in {"nil", "sync error"}
                 /\ now - retryStart >= waitDur
                 /\ (fired.at \in {"attempt", "check"} \/ fired.timerReady))

C8_Witness ==
    /\ fired.at = "attempt"
    /\ pc = "done"
    /\ result = Aborted
    /\ attempts = fired.attempts

\* C9: whatever the outcome of the loop, Sync has been called when
\* createConfigMap returns.
C9_AlwaysPersisted ==
    (pc = "done" /\ result # "write error") => syncs = 1

-----------------------------------------------------------------------------
(* Properties of ValidateAndSetDefaults and UpdateFromEnvs                 *)

Finalized == last.op = "ValidateAndSetDefaults"

\* the last call is a ValidateAndSetDefaults that directly follows a
\* successful ValidateAndSetDefaults, no field edited in between
SecondCall ==
    /\ Finalized
    /\ prev.op = "ValidateAndSetDefaults"
    /\ prev.err = Nil

\* C4: a second ValidateAndSetDefaults on a Config the first call finalized
\* successfully, nothing changed in between, leaves tag, cluster name,
\* config path, key name, key path and init script as they were, adds no
\* entry to LogOutputs and does not rebuild the init script.
C4_SecondCallChangesNothing ==
    SecondCall =>
        /\ cfg.Tag = last.pre.Tag
        /\ cfg.ClusterName = last.pre.ClusterName
        /\ cfg.ConfigPath = last.pre.ConfigPath
        /\ cfg.KeyName = last.pre.KeyName
        /\ cfg.KeyPath = last.pre.KeyPath
        /\ cfg.InitScript = last.pre.InitScript
        /\ cfg.InitScriptCreated = last.pre.InitScriptCreated
        /\ cfg.LogOutputs = last.pre.LogOutputs

C4_Witness ==
    /\ SecondCall
    /\ last.err = Nil
    /\ Len(cfg.Plugins) > 0
    /\ cfg.InitScriptCreated
    /\ Len(cfg.InitScript) > 1
    /\ cfg.Tag \in {<<"ec2-26110115">>, <<"ec2-26110116">>}
    /\ Len(cfg.LogOutputs) = 2

\* C5: a ValidateAndSetDefaults call that fails one of the six validation
\* checks leaves the Config as it was.
C5_FailedCheckChangesNothing ==
    (Finalized /\ last.err \in ValidationErrors) => cfg = last.pre

\* C10: ValidateAndSetDefaults on a Config whose region is not in the
\* region lookup returns an error and leaves the Config as it was.
C10_UnknownRegionFailsFirst ==
    (Finalized /\ last.pre.AWSRegion \notin DOMAIN RegionToAiport) =>
        /\ last.err # Nil
        /\ cfg = last.pre

C10_Witness ==
    /\ Finalized
    /\ last.pre.AWSRegion = <<"mars-north-1">>
    /\ last.err = "region not found"
    /\ Len(last.pre.Plugins) > 0
    /\ ~last.pre.InitScriptCreated
    /\ last.pre.ClusterName = <<>>
    /\ last.pre.KeyPath = <<>>

\* UpdateFromEnvs returned an error
EnvFailed == last.op = "UpdateFromEnvs" /\ last.err # Nil

\* field i had an override in the environment of the last call
Overridden(i) ==
    Getenv(last.env, EnvName(last.pre.EnvPrefix, FieldOrder[i])) # <<>>

\* C6 as stated: when UpdateFromEnvs returns an error at some field, the
\* caller's Config holds the overrides of the fields processed before it.
C6_EarlierOverridesApplied ==
    EnvFailed =>
        \A i \in 1..(last.at - 1) :
            Overridden(i) => cfg[FieldOrder[i]] = last.cc[FieldOrder[i]]

\* C6 as amended: when UpdateFromEnvs returns an error, the caller's Config
\* is exactly as it was before the call; the overrides of the fields
\* processed before the failing one went to the working copy only.
C6_ErrorLeavesConfigUnchanged ==
    EnvFailed => cfg = last.pre

C6_Witness ==
    /\ EnvFailed
    /\ \E i \in 1..(last.at - 1) :
          /\ Overridden(i)
          /\ last.cc[FieldOrder[i]] # last.pre[FieldOrder[i]]


-----------------------------------------------------------------------------
(* Claim C11: the log file in LogOutputs                                   *)

\* how many entries of list are equal to x
Occurrences(list, x) == Cardinality({ i \in 1..Len(list) : list[i] = x })

\* filepath.Join(os.TempDir(), ClusterName + ".log") of the Config as it is now
LogPath == <<"/tmp", "/">> \o cfg.ClusterName \o <<".log">>

FinalizedOk == Finalized /\ last.err = Nil

\* C11 as stated: after every successful ValidateAndSetDefaults, whatever
\* list of log outputs the caller passed in, LogOutputs holds the derived log
\* file path exactly once.
C11_LogPathExactlyOnce ==
    FinalizedOk => Occurrences(cfg.LogOutputs, LogPath) = 1

\* C11 amended: a successful ValidateAndSetDefaults leaves the entries the
\* caller passed in as they were and appends the derived log file path only
\* when no entry is equal to it; so the path is in LogOutputs as often as it
\* was before, and once when it was not there: exactly once whenever the list
\* passed in held it at most once.
C11_LogPathAppendedWhenAbsent ==
    FinalizedOk =>
        LET before == last.pre.LogOutputs
        IN  /\ cfg.LogOutputToUploadPath = LogPath
            /\ IF Occurrences(before, LogPath) = 0
               THEN cfg.LogOutputs = before \o <<LogPath>>
               ELSE cfg.LogOutputs = before
            /\ Occurrences(before, LogPath) <= 1
                  => Occurrences(cfg.LogOutputs, LogPath) = 1

\* a second successful call found the path the first call appended, next to
\* the caller's own entry, and did not append it again
C11_Witness ==
    /\ FinalizedOk
    /\ Occurrences(last.pre.LogOutputs, LogPath) = 1
    /\ Len(last.pre.LogOutputs) = 2
    /\ cfg.LogOutputs = last.pre.LogOutputs


-----------------------------------------------------------------------------
(* Claim C12: overrides UpdateFromEnvs cannot apply                        *)

\* the override of field i in the environment of the last call
Override(i) == Getenv(last.env, EnvName(last.pre.EnvPrefix, FieldOrder[i]))

\* UpdateFromEnvs has no way to set field f from a string: f is neither a
\* string, a boolean, a number, nor a map or a list it parses
CannotApply(f) ==
    \/ Kind(f) \notin {"String", "Bool", "Int", "Uint", "Float", "Map", "Slice"}
    \/ Kind(f) = "Map" /\ f \notin {"Tags", "IngressRulesTCP"}
    \/ Kind(f) = "Slice" /\ f \notin {"Plugins", "SubnetIDs", "SecurityGroupIDs"}

EnvCalled == last.op = "UpdateFromEnvs"

\* C12: UpdateFromEnvs never silently ignores an override it cannot apply:
\* when the environment holds a non-empty override for a field of an
\* unsupported kind, or for a map or list field outside the allow-lists, the
\* call returns an error; and when that field is the one the call stopped
\* at, the error is the one that says the field is not supported.
C12_UnsupportedOverrideFails ==
    EnvCalled =>
        \A i \in 1..Len(FieldOrder) :
            (Override(i) # <<>> /\ CannotApply(FieldOrder[i])) =>
                /\ last.err # Nil
                /\ last.at = i => last.err \in {"parsing field name not supported",
                                                "is not supported as an env"}

\* the call stopped at the override of a struct field (UpdatedAt), after it
\* had applied an override of an earlier field to its working copy
C12_Witness ==
    /\ EnvCalled
    /\ last.at > 0
    /\ Kind(FieldOrder[last.at]) = "Struct"
    /\ last.err = "is not supported as an env"
    /\ \E i \in 1..(last.at - 1) : Override(i) # <<>>


-----------------------------------------------------------------------------
(* Claim C13: what a successful UpdateFromEnvs leaves                      *)

\* the value each well-formed override literal of EnvValues stands for
Expected(sv) ==
    CASE sv = <<"true">> -> TRUE
      [] sv = <<"9", "0", "s">> -> 90
      [] sv = <<"1", "2">> -> 12
      [] sv = <<"a", "=", "b">> -> (<<"a">> :> <<"b">>)
      [] sv = <<"22", "=", "0.0.0.0/0", ",", "80", "=", "10.0.0.0/8">> ->
            (<<"22">> :> <<"0.0.0.0/0">>) @@ (<<"80">> :> <<"10.0.0.0/8">>)
      [] sv = <<"update-amazon-linux-2", ",", "no-such-plugin">> ->
            << <<"update-amazon-linux-2">>, <<"no-such-plugin">> >>
      [] OTHER -> sv

EnvOk == EnvCalled /\ last.err = Nil

\* C13: when UpdateFromEnvs returns without error, the Config is the one
\* from before the call with exactly the overridden fields replaced: every
\* field with a non-empty override holds the value the override stands for,
\* every other field holds the value it had.
C13_ExactlyOverriddenFieldsReplaced ==
    EnvOk =>
        \A i \in 1..Len(FieldOrder) :
            cfg[FieldOrder[i]] = IF Override(i) # <<>>
                                 THEN Expected(Override(i))
                                 ELSE last.pre[FieldOrder[i]]

\* a successful call with two overrides that both changed their field, on a
\* Config whose tags, set before the call and not overridden, are still there
C13_Witness ==
    /\ EnvOk
    /\ Cardinality({ i \in 1..Len(FieldOrder) :
                        /\ Override(i) # <<>>
                        /\ cfg[FieldOrder[i]] # last.pre[FieldOrder[i]] }) = 2
    /\ DOMAIN cfg.Tags = { <<"team">> }
    /\ cfg.ClusterSize = 12


-----------------------------------------------------------------------------
(* Claim C14: overrides of the map fields Tags and IngressRulesTCP         *)

\* every comma-separated pair of sv holds exactly one "="
WellFormedPairs(sv) ==
    \A k \in 1..Len(Split(sv, ",")) :
        Occurrences(Split(sv, ",")[k], "=") = 1

\* the loop of the last UpdateFromEnvs call got as far as field i
Reached(i) == last.at = 0 \/ last.at >= i

-----------------------------------------------------------------------------
(* Claim C15: the 'created' flags                                          *)

\* the fields of Config that record that a resource has been provisioned
CreatedFlags ==
    {"InitScriptCreated", "KeyCreated", "VPCCreated", "InstanceProfileCreated",
     "InstanceProfilePolicyCreated", "InstanceProfileRoleCreated"}

\* C15: no call of ValidateAndSetDefaults, successful or failing, changes a
\* 'created' flag from true to false.
C15_CreatedFlagsNeverCleared ==
    Finalized => \A flag \in CreatedFlags : last.pre[flag] => cfg[flag]

\* a call on a Config with all six flags set and no plugins changed the
\* Config (it derived fields) and returned without error
C15_Witness ==
    /\ FinalizedOk
    /\ \A flag \in CreatedFlags : last.pre[flag]
    /\ last.pre.Plugins = <<>>
    /\ cfg # last.pre


-----------------------------------------------------------------------------
(* Claim C16: the cluster name                                             *)

\* C16: across any sequence of ValidateAndSetDefaults and Sync calls, with
\* the user editing other fields (the tag, the region) between them, a
\* cluster name that is not empty never changes.
C16_ClusterNameNeverChanges ==
    [][cfg.ClusterName # <<>> => cfg'.ClusterName = cfg.ClusterName]_vars

\* the default Config was validated (which derived its name from the
\* generated tag), synced, given another tag by its user and validated
\* again: the name is still the one derived from the first tag
C16_Witness ==
    /\ FinalizedOk
    /\ calls = 2
    /\ stores >= 1
    /\ cfg.UpdatedAt > 0
    /\ cfg.Tag = <<"other-tag">>
    /\ cfg.ClusterName = last.pre.ClusterName
    /\ cfg.ClusterName[1] \in {"ec2-26110115", "ec2-26110116"}


-----------------------------------------------------------------------------
(* Claim C17: Sync, then Load                                              *)

\* the last two calls: a Sync that returned nil, then a Load of the path it
\* wrote that returned nil
SyncThenLoad ==
    /\ last.op = "Load"
    /\ last.err = Nil
    /\ prev.op = "Sync"
    /\ prev.err = Nil
    /\ Resolve(last.env) = cfg.ConfigPath

\* C17 as stated: Sync followed by Load of the same path returns a Config
\* equal to the synced one in every field except the last-updated timestamp
\* and the normalized path, for any Config, one whose instance map is absent
\* included.
C17_LoadReturnsSyncedConfig ==
    SyncThenLoad =>
        \A f \in DOMAIN JsonTags \ {"UpdatedAt", "ConfigPath"} :
            loaded.cfg[f] = cfg[f]

\* C17 amended: Sync followed by Load of the same path returns a Config
\* equal to the synced one in every field except the last-updated
\* timestamp, the path (the absolute path of the file) and, when the synced
\* Config has no instance map (nil), Instances: Load returns an empty map
\* in its place.
C17_LoadReturnsSyncedConfigWithInstances ==
    SyncThenLoad =>
        /\ \A f \in DOMAIN JsonTags \ {"UpdatedAt", "ConfigPath", "Instances"} :
               loaded.cfg[f] = cfg[f]
        /\ loaded.cfg.ConfigPath = cfg.ConfigPath
        /\ loaded.cfg.Instances = IF cfg.Instances.isNil THEN MakeMap(<< >>)
                                  ELSE cfg.Instances

\* the default Config (no instance map) with a relative path and a zero
\* DestroyWaitTime was synced and loaded back by its relative path
C17_Witness ==
    /\ SyncThenLoad
    /\ last.env = <<"ec2config.yaml">>
    /\ loaded.cfg.DestroyWaitTime = 0
    /\ cfg.Instances.isNil
    /\ ~loaded.cfg.Instances.isNil
    /\ loaded.cfg.Plugins = NewDefault.Plugins
    /\ loaded.cfg.IngressRulesTCP = NewDefault.IngressRulesTCP


-----------------------------------------------------------------------------
(* Claim C18: the rendered aws-auth ConfigMap                              *)

\* the rolearn line of the artifact holds the ARN as it was passed
ArnVerbatim ==
    /\ Len(artifact.txt) >= Len(arn) + 2
    /\ artifact.txt[1] = configMapAuthTempl[1]
    /\ SubSeq(artifact.txt, 2, Len(arn) + 1) = arn
    /\ artifact.txt[Len(arn) + 2] = "\n      "

\* the artifact holds the placeholder token once, on the username line that
\* follows the rolearn line
PlaceholderOnce ==
    /\ Occurrences(artifact.txt, "{{EC2PrivateDNSName}}") = 1
    /\ \E i \in 2..(Len(artifact.txt) - 2) :
          /\ artifact.txt[i - 1] = "\n      "
          /\ SubSeq(artifact.txt, i, i + 1) = UsernameLine
          /\ artifact.txt[i + 2] = configMapAuthTempl[5]

\* C18 as stated: for every role ARN given to writeConfigMapAuth, the
\* artifact it writes holds that ARN verbatim on the rolearn line and the
\* placeholder token {{EC2PrivateDNSName}} exactly once, unmodified, on its
\* own line: nothing in the ARN alters or consumes the placeholder.
C18_ArnVerbatimPlaceholderOnce ==
    artifact.written => ArnVerbatim /\ PlaceholderOnce


-----------------------------------------------------------------------------
(* Claim C19: the default template                                         *)

\* the slice and map fields of the Config a call of NewDefault would return
\* now
NewDefaultNow == RefsValue(HeapNewDefault(mem).heap, HeapNewDefault(mem).cfg)

\* the slice and map fields the literal of defaultConfig gives
DefaultLiteral ==
    [ LogOutputs |-> defaultConfig.LogOutputs,
      Tags |-> defaultConfig.Tags,
      Plugins |-> defaultConfig.Plugins,
      IngressRulesTCP |-> defaultConfig.IngressRulesTCP ]

\* C19: the default template is immutable: whatever UpdateFromEnvs and
\* ValidateAndSetDefaults calls were made on a Config obtained from
\* NewDefault, a later NewDefault returns the values of the literal, the
\* contents of LogOutputs, Plugins and IngressRulesTCP included.
C19_DefaultTemplateUnchanged == NewDefaultNow = DefaultLiteral

\* the Config obtained from NewDefault has got another ingress map and a
\* second log output
C19_Witness ==
    /\ mem.made
    /\ mem.ops = MaxHeapOps
    /\ Len(RefsValue(mem.heap, mem.cfg).LogOutputs) = 2
    /\ DOMAIN RefsValue(mem.heap, mem.cfg).IngressRulesTCP = { <<"22">>, <<"80">> }
    /\ mem.cfg.Plugins = mem.def.Plugins


-----------------------------------------------------------------------------
(* Claim C20: failures in the recorded status                              *)

\* C20 as stated: every failed apply attempt is reflected in the status:
\* by the time the loop waits again or has returned, RecordStatus has been
\* called with the failure of the last attempt that failed.
C20_FailureRecorded ==
    (failed > 0 /\ pc \in {"check", "select", "done"}) => lastRecorded = "kubectl error"

\* ---------------------------------------------------------------------------
\* Claim C21: the init script step of ValidateAndSetDefaults
\* ---------------------------------------------------------------------------

\* The errors of the checks that stand before the init script step: a call
\* that returns one of them never reached the step.
BeforeInitScript ==
    {"EC2 LogOutputs is not specified", "empty AWSRegion", "region not found",
     "empty UserName", "empty ImageID"}

ReachedInitScript == Finalized /\ last.err \notin BeforeInitScript

Generated(c) == pluginsCreate(c.UserName, c.CustomScript, c.Plugins).txt

\* C21: every ValidateAndSetDefaults call that comes to the init script step
\* with a non-empty plugin list and the built flag unset leaves the init
\* script equal to the generated text followed by the pre-existing text, with
\* the built flag set; every call with the flag set or the plugin list empty
\* leaves the init script unchanged.
C21_InitScriptPreserved ==
    ReachedInitScript =>
        IF Len(last.pre.Plugins) > 0 /\ ~last.pre.InitScriptCreated
        THEN /\ cfg.InitScript =
                    Generated(last.pre) \o <<"\n">> \o last.pre.InitScript
             /\ cfg.InitScriptCreated
        ELSE cfg.InitScript = last.pre.InitScript

\* ---------------------------------------------------------------------------
\* Claim C22: createConfigMap returns nil only after a successful attempt
\* ---------------------------------------------------------------------------

\* C22: createConfigMap returns a nil error only if at least one apply
\* attempt succeeded: never when an attempt failed, when no attempt was made,
\* or when it stopped at a cancellation rather than at the deadline.
C22_NilOnlyAfterSuccess ==
    (pc = "done" /\ result = "nil") =>
        /\ succeeded >= 1
        /\ failed = 0
        /\ attempts = succeeded
        /\ now - retryStart >= waitDur
        /\ syncs = 1

C22_Witness ==
    /\ pc = "done"
    /\ result = "nil"
    /\ succeeded >= 1

\* ---------------------------------------------------------------------------
\* Claim C23: which attempts record the "create ConfigMap failed" status
\* ---------------------------------------------------------------------------

\* C23: a "create ConfigMap failed" status is recorded only after an apply
\* attempt that failed: whenever a status has been recorded, some attempt has
\* failed and the recorded error is that of the client, and there are never
\* more recorded statuses than failed attempts.
C23_FailureStatusOnlyAfterFailure ==
    recorded > 0 =>
        /\ failed >= 1
        /\ lastRecorded = "kubectl error"
        /\ recorded <= failed

====
